---- MODULE Spec2Model ----
(***************************************************************************)
(* vtkThreadedCallbackQueue: a resizable pool of worker threads draining a *)
(* FIFO queue of invokers.  An outer pool owns a controller, which is an   *)
(* instance of the same class with one thread and no controller of its     *)
(* own; Start, Stop, SetNumberOfThreads and Push on the outer pool are     *)
(* pushed on the controller's queue and run there, one after the other.    *)
(*                                                                         *)
(* Both pools are modelled by the same variables, indexed by the pool.     *)
(* A thread is the record held by its handle in Threads[p]:                *)
(*   pc = "none"     default-constructed or joined std::thread             *)
(*        "start"    in Pop, about to take the mutex (line 73), also after *)
(*                   a wake-up, when the wait re-takes the mutex           *)
(*        "locked"   holding the mutex, about to evaluate OnHold/Continue  *)
(*        "front"    holding the mutex and the invoker moved out of front()*)
(*        "waiting"  blocked in ConditionVariable.wait (line 77)           *)
(*        "exec"     running the popped invoker, mutex released (line 93)  *)
(*        "done"     operator() has returned; the handle is joinable       *)
(* step, size, it, threadId are the locals of the administrative lambda a  *)
(* controller thread is running.                                           *)
(***************************************************************************)
EXTENDS Integers, Sequences, FiniteSets, TLC

\* Largest thread count passed to SetNumberOfThreads.
MaxThreads == 2
\* Number of tasks submitted to the outer pool over a run.
MaxTasks == 2
\* Number of calls of Start, Stop, SetNumberOfThreads and Push over a run.
MaxCalls == 4
\* External threads that may be inside a call at the same time.
MaxCallers == 2
\* Number of diagnostic dumps over a run.
MaxDumps == 1

Ctl == "ctl"
Out == "out"
Pools == {Ctl, Out}

VARIABLES
  NumberOfThreads,  \* [pool -> Int]
  Running,          \* [pool -> BOOLEAN]
  Destroying,       \* [pool -> BOOLEAN]
  Empty,            \* [pool -> BOOLEAN]
  InvokerQueue,     \* [pool -> Seq(invoker)]
  Threads,          \* [pool -> Seq(thread record)]
  Mutex,            \* [pool -> 0 (free) or the index in Threads[pool] of the holder]
  notifying,        \* callers of Push on the controller that have unlocked and not yet notified
  ncalls,           \* calls made so far; a call's ticket is its rank
  nextTask,         \* id of the next task to be submitted
  dtor,             \* the thread running ~vtkThreadedCallbackQueue of the outer pool; pops
                    \* is history: the pops the outer pool had made when Destroying was set
  pushLog,          \* [pool -> Seq] history: the invokers in the order appended, each with
                    \* its ticket, whether the pool was running when it was appended, and
                    \* whether it was in the queue when a Stop cleared Running
  popLog,           \* [pool -> Seq(ticket)] history: invokers in the order popped
  executed,         \* [task -> number of times the task's body has run]
  os                \* what PrintSelf has written to its stream: a sequence of dumps

vars == <<NumberOfThreads, Running, Destroying, Empty, InvokerQueue, Threads, Mutex,
          notifying, ncalls, nextTask, dtor, pushLog, popLog, executed, os>>

NoInv == [kind |-> "none", arg |-> 0, seq |-> 0]

\* A default-constructed std::thread, which is also what join() leaves behind.
NoThread == [id |-> 0, pc |-> "none", inv |-> NoInv, step |-> "", size |-> 0, it |-> 0, threadId |-> 0]

\* std::thread(ThreadWorker(this, threadId))
ThreadWorker(threadId) == [NoThread EXCEPT !.id = threadId, !.pc = "start"]

\* The state a thread is left in when operator() returns.
Terminated(w) == [NoThread EXCEPT !.id = w.id, !.pc = "done"]

\* Mutant: the controller is given two threads.
CtlThreadsTwo == 1 + 1

\* The thread count the outer constructor gives its controller.
CtlThreads == 1

\* The member initialisers of the constructor.
InitNumberOfThreads == 1

Live(w) == w.pc \in {"start", "locked", "front", "waiting", "exec"}

Waiting(p) == {i \in DOMAIN Threads[p] : Threads[p][i].pc = "waiting"}

\* std::vector::resize on the thread handles.
Resize(s, n) == [i \in 1..n |-> IF i <= Len(s) THEN s[i] ELSE NoThread]

(***************************************************************************)
(* The worker loop.                                                        *)
(***************************************************************************)
OnHold(p, w) ==
  /\ w.id < NumberOfThreads[p]
  /\ ~Destroying[p]
  /\ Running[p]
  /\ InvokerQueue[p] = <<>>

\* Mutant: Continue forgets the thread id.
ContinueOutOfService(p, w) ==
  /\ Running[p]
  /\ InvokerQueue[p] # <<>>

\* Mutant: Continue forgets Running.
ContinueWhenStopped(p, w) ==
  /\ w.id < NumberOfThreads[p]
  /\ InvokerQueue[p] # <<>>

\* Mutant: Continue gives up as soon as the pool is being destroyed.
ContinueUnlessDestroying(p, w) ==
  /\ w.id < NumberOfThreads[p]
  /\ ~Destroying[p]
  /\ Running[p]
  /\ InvokerQueue[p] # <<>>

Continue(p, w) ==
  /\ w.id < NumberOfThreads[p]
  /\ Running[p]
  /\ InvokerQueue[p] # <<>>

\* Mutant: front() reads the newest invoker.
FrontIsBack(q) == q[Len(q)]

\* InvokerQueue.front()
Front(q) == Head(q)

\* InvokerQueue.pop()
PopFront(q) == Tail(q)

\* Mutant: Pop leaves the flag false.
NeverEmpty(q) == FALSE

\* InvokerQueue.empty()
IsEmpty(q) == q = <<>>

\* What a controller thread's locals are when it enters an invoker's body.
Enter(w, inv) == [w EXCEPT !.pc = "exec", !.inv = inv, !.step = "begin"]

\* The invoker's call returns and the worker loops back into Pop.
Return(w) == [NoThread EXCEPT !.id = w.id, !.pc = "start"]

\* Mutant: the mutex excludes nobody.
MutexIgnored(p) == TRUE

\* Whether a thread that asks for the mutex of pool p gets it.
MutexFree(p) == Mutex[p] = 0

\* std::unique_lock<std::mutex> lock(this->Queue->Mutex): also how a woken
\* thread re-takes the mutex before the wait re-evaluates OnHold.
Lock(p, i) ==
  /\ i \in DOMAIN Threads[p]
  /\ Threads[p][i].pc = "start"
  /\ MutexFree(p)
  /\ Mutex' = [Mutex EXCEPT ![p] = i]
  /\ Threads' = [Threads EXCEPT ![p][i].pc = "locked"]
  /\ UNCHANGED <<os, NumberOfThreads, Running, Destroying, Empty, InvokerQueue,
                 notifying, ncalls, nextTask, dtor, pushLog, popLog, executed>>

\* Mutant: Pop keeps the mutex while the invoker runs.
PopUnlockForgotten(p, i) == Mutex

\* Who holds the mutex once Pop has left its critical section.
PopUnlock(p, i) == [Mutex EXCEPT ![p] = 0]

\* The critical section of Pop up to the move out of front(): wait, return
\* false, or take the invoker at the front.
Pop(p, i) ==
  /\ i \in DOMAIN Threads[p]
  /\ Threads[p][i].pc = "locked"
  /\ LET w == Threads[p][i] IN
     IF OnHold(p, w)
     THEN /\ Threads' = [Threads EXCEPT ![p][i].pc = "waiting"]
          /\ Mutex' = [Mutex EXCEPT ![p] = 0]
     ELSE IF ~Continue(p, w)
     THEN /\ Threads' = [Threads EXCEPT ![p][i] = Terminated(w)]
          /\ Mutex' = [Mutex EXCEPT ![p] = 0]
     ELSE /\ Threads' = [Threads EXCEPT ![p][i].pc = "front",
                                        ![p][i].inv = Front(InvokerQueue[p])]
          /\ UNCHANGED Mutex
  /\ UNCHANGED <<os, NumberOfThreads, Running, Destroying, Empty, InvokerQueue,
                 notifying, ncalls, nextTask, dtor, pushLog, popLog, executed>>

\* The rest of the critical section: pop(), update Empty, unlock; the thread
\* then enters the invoker.
PopInvoker(p, i) ==
  /\ i \in DOMAIN Threads[p]
  /\ Threads[p][i].pc = "front"
  /\ LET w == Threads[p][i]
         rest == PopFront(InvokerQueue[p]) IN
     /\ InvokerQueue' = [InvokerQueue EXCEPT ![p] = rest]
     /\ Empty' = [Empty EXCEPT ![p] = IsEmpty(rest)]
     /\ Mutex' = PopUnlock(p, i)
     /\ Threads' = [Threads EXCEPT ![p][i] = Enter(w, w.inv)]
     /\ popLog' = [popLog EXCEPT ![p] = Append(@, w.inv.seq)]
  /\ UNCHANGED <<os, NumberOfThreads, Running, Destroying,
                 notifying, ncalls, nextTask, dtor, pushLog, executed>>

\* (*invoker)() for a task of the outer pool: the task's body runs and returns.
Run(i) ==
  /\ i \in DOMAIN Threads[Out]
  /\ Threads[Out][i].pc = "exec"
  /\ LET w == Threads[Out][i] IN
     /\ executed' = [executed EXCEPT ![w.inv.arg] = @ + 1]
     /\ Threads' = [Threads EXCEPT ![Out][i] = Return(w)]
  /\ UNCHANGED <<os, NumberOfThreads, Running, Destroying, Empty, InvokerQueue, Mutex,
                 notifying, ncalls, nextTask, dtor, pushLog, popLog>>

\* condition_variable::wait may return without a notification; the wait then
\* re-takes the mutex and re-evaluates OnHold.
SpuriousWakeup(p, i) ==
  /\ i \in DOMAIN Threads[p]
  /\ Threads[p][i].pc = "waiting"
  /\ Threads' = [Threads EXCEPT ![p][i].pc = "start"]
  /\ UNCHANGED <<os, NumberOfThreads, Running, Destroying, Empty, InvokerQueue, Mutex,
                 notifying, ncalls, nextTask, dtor, pushLog, popLog, executed>>

\* Mutant: notify_all wakes nobody.
NotifyNobody(p, ts) == ts

\* ConditionVariable.notify_all(): every waiting thread of the pool wakes.
NotifyAll(p, ts) ==
  [i \in DOMAIN ts |-> IF ts[i].pc = "waiting" THEN [ts[i] EXCEPT !.pc = "start"] ELSE ts[i]]

\* ConditionVariable.notify_one(): thread j wakes, if it is waiting.
NotifyOne(ts, j) ==
  [i \in DOMAIN ts |-> IF i = j /\ ts[i].pc = "waiting" THEN [ts[i] EXCEPT !.pc = "start"] ELSE ts[i]]

\* The threads notify_one may pick: any waiting one; with none waiting the
\* notification is lost (0).
NotifyChoices(p) == IF Waiting(p) = {} THEN {0} ELSE Waiting(p)

(***************************************************************************)
(* Push.  An invoker is a record: a task of the outer pool carries its id  *)
(* in seq; an administrative lambda queued on the controller carries its   *)
(* kind, its argument and the ticket of the call in seq.                   *)
(***************************************************************************)
Task(t) == [kind |-> "Task", arg |-> t, seq |-> t]

\* InvokerQueue.emplace(...) under the mutex.
Emplace(q, inv) == Append(q, inv)

\* The arguments a caller may pass to SetNumberOfThreads: an int, negative
\* values included.
ThreadCounts == (-1)..MaxThreads

\* The calls an external thread may make on the outer pool.
Calls ==
  {[kind |-> "Start", arg |-> 0], [kind |-> "Stop", arg |-> 0]}
  \cup {[kind |-> "SetNumberOfThreads", arg |-> n] : n \in ThreadCounts}
  \cup (IF nextTask <= MaxTasks THEN {[kind |-> "Push", arg |-> nextTask]} ELSE {})

\* Execute(controller, f): the outer pool has a controller, so the lambda is
\* pushed on the controller's queue, under the controller's mutex.
Execute(call) ==
  /\ dtor.step = "alive"
  /\ ncalls < MaxCalls
  /\ notifying < MaxCallers
  /\ MutexFree(Ctl)
  /\ InvokerQueue' = [InvokerQueue EXCEPT
       ![Ctl] = Emplace(@, [kind |-> call.kind, arg |-> call.arg, seq |-> ncalls + 1])]
  /\ Empty' = [Empty EXCEPT ![Ctl] = FALSE]
  /\ pushLog' = [pushLog EXCEPT ![Ctl] = Append(@, [seq |-> ncalls + 1, running |-> Running[Ctl], stranded |-> FALSE])]
  /\ ncalls' = ncalls + 1
  /\ nextTask' = IF call.kind = "Push" THEN nextTask + 1 ELSE nextTask
  /\ notifying' = notifying + 1
  /\ UNCHANGED <<os, NumberOfThreads, Running, Destroying, Threads, Mutex, dtor, popLog, executed>>

\* The notify_one that ends the caller's Push on the controller.
ExecuteNotify(j) ==
  /\ notifying > 0
  /\ j \in NotifyChoices(Ctl)
  /\ notifying' = notifying - 1
  /\ Threads' = [Threads EXCEPT ![Ctl] = NotifyOne(@, j)]
  /\ UNCHANGED <<os, NumberOfThreads, Running, Destroying, Empty, InvokerQueue, Mutex,
                 ncalls, nextTask, dtor, pushLog, popLog, executed>>

(***************************************************************************)
(* The administrative lambdas, run by controller thread c on the outer     *)
(* pool.  AtStep(c, kind, step) places the thread inside one.              *)
(***************************************************************************)
AtStep(c, kind, step) ==
  /\ c \in DOMAIN Threads[Ctl]
  /\ Threads[Ctl][c].pc = "exec"
  /\ Threads[Ctl][c].inv.kind = kind
  /\ Threads[Ctl][c].step = step

\* An exception has left a lambda on a controller thread: std::terminate has
\* ended the process and no thread takes a step any more.
Aborted == \E c \in DOMAIN Threads[Ctl] : Threads[Ctl][c].step = "terminate"

\* Threads.resize(numberOfThreads): a negative int converts to a size_t above
\* max_size() and resize throws std::length_error.
ResizeThrows(numberOfThreads) == numberOfThreads < 0

\* Push on the outer pool: the critical section appending the invoker.
PushEmplace(c) ==
  /\ AtStep(c, "Push", "begin")
  /\ MutexFree(Out)
  /\ LET t == Threads[Ctl][c].inv.arg IN
     /\ InvokerQueue' = [InvokerQueue EXCEPT ![Out] = Emplace(@, Task(t))]
     /\ pushLog' = [pushLog EXCEPT ![Out] = Append(@, [seq |-> t, running |-> Running[Out], stranded |-> FALSE])]
  /\ Empty' = [Empty EXCEPT ![Out] = FALSE]
  /\ Threads' = [Threads EXCEPT ![Ctl][c].step = "notify_one"]
  /\ UNCHANGED <<os, NumberOfThreads, Running, Destroying, Mutex,
                 notifying, ncalls, nextTask, dtor, popLog, executed>>

\* Push on the outer pool: notify_one after the mutex is released.
PushNotify(c, j) ==
  /\ AtStep(c, "Push", "notify_one")
  /\ j \in NotifyChoices(Out)
  /\ Threads' = [Threads EXCEPT ![Out] = NotifyOne(@, j),
                                ![Ctl][c] = Return(Threads[Ctl][c])]
  /\ UNCHANGED <<os, NumberOfThreads, Running, Destroying, Empty, InvokerQueue, Mutex,
                 notifying, ncalls, nextTask, dtor, pushLog, popLog, executed>>

\* Mutant: Start does not test Running.
StartBeginUnchecked(c) ==
  /\ AtStep(c, "Start", "begin")
  /\ Running' = [Running EXCEPT ![Out] = TRUE]
  /\ Threads' = [Threads EXCEPT ![Ctl][c].step = "generate",
                                ![Ctl][c].threadId = -1,
                                ![Ctl][c].it = 0]
  /\ UNCHANGED <<os, NumberOfThreads, Destroying, Empty, InvokerQueue, Mutex,
                 notifying, ncalls, nextTask, dtor, pushLog, popLog, executed>>

\* Start: return if running, else set Running (no lock) and go on to spawn.
StartBegin(c) ==
  /\ AtStep(c, "Start", "begin")
  /\ IF Running[Out]
     THEN /\ Threads' = [Threads EXCEPT ![Ctl][c] = Return(@)]
          /\ UNCHANGED Running
     ELSE /\ Running' = [Running EXCEPT ![Out] = TRUE]
          /\ Threads' = [Threads EXCEPT ![Ctl][c].step = "generate",
                                        ![Ctl][c].threadId = -1,
                                        ![Ctl][c].it = 0]
  /\ UNCHANGED <<os, NumberOfThreads, Destroying, Empty, InvokerQueue, Mutex,
                 notifying, ncalls, nextTask, dtor, pushLog, popLog, executed>>

\* Mutant: the ids of Start begin at 1.
NextThreadIdFromOne(threadId) == threadId + 2

\* ++threadId in the generator of Start.
NextThreadId(threadId) == threadId + 1

\* Start: std::generate over the handles, one thread per handle, ids ++threadId.
StartGenerate(c) ==
  /\ AtStep(c, "Start", "generate")
  /\ LET w == Threads[Ctl][c] IN
     IF w.it = Len(Threads[Out])
     THEN Threads' = [Threads EXCEPT ![Ctl][c] = Return(w)]
     ELSE Threads' = [Threads EXCEPT ![Out][w.it + 1] = ThreadWorker(NextThreadId(w.threadId)),
                                     ![Ctl][c].threadId = NextThreadId(w.threadId),
                                     ![Ctl][c].it = w.it + 1]
  /\ UNCHANGED <<os, NumberOfThreads, Running, Destroying, Empty, InvokerQueue, Mutex,
                 notifying, ncalls, nextTask, dtor, pushLog, popLog, executed>>

\* Stop: return if not running.
StopBegin(c) ==
  /\ AtStep(c, "Stop", "begin")
  /\ IF ~Running[Out]
     THEN Threads' = [Threads EXCEPT ![Ctl][c] = Return(@)]
     ELSE Threads' = [Threads EXCEPT ![Ctl][c].step = "lock"]
  /\ UNCHANGED <<os, NumberOfThreads, Running, Destroying, Empty, InvokerQueue, Mutex,
                 notifying, ncalls, nextTask, dtor, pushLog, popLog, executed>>

\* History: the entries of the invokers in queue q are marked stranded.
MarkStranded(log, q) ==
  [k \in DOMAIN log |->
     IF \E m \in DOMAIN q : q[m].seq = log[k].seq
     THEN [log[k] EXCEPT !.stranded = TRUE] ELSE log[k]]

\* Stop: Running = false under the mutex.
StopLock(c) ==
  /\ AtStep(c, "Stop", "lock")
  /\ MutexFree(Out)
  /\ Running' = [Running EXCEPT ![Out] = FALSE]
  /\ Threads' = [Threads EXCEPT ![Ctl][c].step = "notify_all"]
  /\ pushLog' = [pushLog EXCEPT ![Out] = MarkStranded(@, InvokerQueue[Out])]
  /\ UNCHANGED <<os, NumberOfThreads, Destroying, Empty, InvokerQueue, Mutex,
                 notifying, ncalls, nextTask, dtor, popLog, executed>>

\* Stop: notify_all, then Sync() from the first handle.
StopNotify(c) ==
  /\ AtStep(c, "Stop", "notify_all")
  /\ Threads' = [Threads EXCEPT ![Out] = NotifyAll(Out, @),
                                ![Ctl][c].step = "sync",
                                ![Ctl][c].it = 0]
  /\ UNCHANGED <<os, NumberOfThreads, Running, Destroying, Empty, InvokerQueue, Mutex,
                 notifying, ncalls, nextTask, dtor, pushLog, popLog, executed>>

\* SetNumberOfThreads: compare with the size; write NumberOfThreads without
\* the lock when growing or not running, else go on to take the lock.
SetBegin(c) ==
  /\ AtStep(c, "SetNumberOfThreads", "begin")
  /\ LET w == Threads[Ctl][c]
         numberOfThreads == w.inv.arg
         size == Len(Threads[Out]) IN
     IF size = numberOfThreads
     THEN /\ Threads' = [Threads EXCEPT ![Ctl][c] = Return(w)]
          /\ UNCHANGED NumberOfThreads
     ELSE IF size < numberOfThreads \/ ~Running[Out]
     THEN /\ NumberOfThreads' = [NumberOfThreads EXCEPT ![Out] = numberOfThreads]
          /\ Threads' = [Threads EXCEPT ![Ctl][c].step = "written", ![Ctl][c].size = size]
     ELSE /\ Threads' = [Threads EXCEPT ![Ctl][c].step = "lock", ![Ctl][c].size = size]
          /\ UNCHANGED NumberOfThreads
  /\ UNCHANGED <<os, Running, Destroying, Empty, InvokerQueue, Mutex,
                 notifying, ncalls, nextTask, dtor, pushLog, popLog, executed>>

\* SetNumberOfThreads, shrinking a running pool: the write under the mutex.
SetLock(c) ==
  /\ AtStep(c, "SetNumberOfThreads", "lock")
  /\ MutexFree(Out)
  /\ NumberOfThreads' = [NumberOfThreads EXCEPT ![Out] = Threads[Ctl][c].inv.arg]
  /\ Threads' = [Threads EXCEPT ![Ctl][c].step = "written"]
  /\ UNCHANGED <<os, Running, Destroying, Empty, InvokerQueue, Mutex,
                 notifying, ncalls, nextTask, dtor, pushLog, popLog, executed>>

\* Mutant: the growth spawns one thread too many.
GrowCountOneMore(numberOfThreads, size) == numberOfThreads - size + 1

\* The number of threads a growth spawns.
GrowCount(numberOfThreads, size) == numberOfThreads - size

\* SetNumberOfThreads after the write: resize the handles of a stopped pool,
\* or go on to spawn (growing), or notify_all and go on to Sync (shrinking).
SetWritten(c) ==
  /\ AtStep(c, "SetNumberOfThreads", "written")
  /\ LET w == Threads[Ctl][c]
         numberOfThreads == w.inv.arg IN
     IF ~Running[Out]
     THEN IF ResizeThrows(numberOfThreads)
          THEN Threads' = [Threads EXCEPT ![Ctl][c].step = "terminate"]
          ELSE Threads' = [Threads EXCEPT ![Out] = Resize(@, numberOfThreads),
                                          ![Ctl][c] = Return(w)]
     ELSE IF w.size < numberOfThreads
     THEN Threads' = [Threads EXCEPT ![Ctl][c].step = "generate_n",
                                     ![Ctl][c].it = GrowCount(numberOfThreads, w.size)]
     ELSE Threads' = [Threads EXCEPT ![Out] = NotifyAll(Out, @),
                                     ![Ctl][c].step = "sync",
                                     ![Ctl][c].it = NumberOfThreads[Out]]
  /\ UNCHANGED <<os, NumberOfThreads, Running, Destroying, Empty, InvokerQueue, Mutex,
                 notifying, ncalls, nextTask, dtor, pushLog, popLog, executed>>

\* The id the growth gives the thread it is about to append: the generator
\* runs before back_inserter appends, so size() is still the old size.
GrowThreadId(ts) == Len(ts) - 1

\* SetNumberOfThreads, growing a running pool: std::generate_n appends one
\* thread per call of the generator.
SetGenerate(c) ==
  /\ AtStep(c, "SetNumberOfThreads", "generate_n")
  /\ LET w == Threads[Ctl][c] IN
     IF w.it <= 0
     THEN Threads' = [Threads EXCEPT ![Ctl][c] = Return(w)]
     ELSE Threads' = [Threads EXCEPT
            ![Out] = Append(@, ThreadWorker(GrowThreadId(Threads[Out]))),
            ![Ctl][c].it = w.it - 1]
  /\ UNCHANGED <<os, NumberOfThreads, Running, Destroying, Empty, InvokerQueue, Mutex,
                 notifying, ncalls, nextTask, dtor, pushLog, popLog, executed>>

\* Mutant: join() does not wait for the thread.
JoinedAtOnce(w) == w.pc # "none"

\* thread.join() returns once the thread's operator() has returned.
Joined(w) == w.pc = "done"

\* Sync(startId): join the next handle; join() returns once the thread has
\* terminated and leaves the handle not joinable.
SyncJoin(c) ==
  /\ c \in DOMAIN Threads[Ctl]
  /\ Threads[Ctl][c].pc = "exec"
  /\ Threads[Ctl][c].step = "sync"
  /\ LET w == Threads[Ctl][c] IN
     /\ w.it >= 0
     /\ w.it < Len(Threads[Out])
     /\ Joined(Threads[Out][w.it + 1])
     /\ Threads' = [Threads EXCEPT ![Out][w.it + 1] = NoThread,
                                   ![Ctl][c].it = w.it + 1]
  /\ UNCHANGED <<os, NumberOfThreads, Running, Destroying, Empty, InvokerQueue, Mutex,
                 notifying, ncalls, nextTask, dtor, pushLog, popLog, executed>>

\* What joining the memory in front of the handles may do.
StrayJoins == {"throws", "returns", "blocks"}

\* Sync(startId) with a negative startId: Threads.begin() + startId points in
\* front of the vector's storage and join() is called on whatever is there.
\* The behaviour is undefined: the join may throw (std::terminate), return,
\* or never return.
SyncStray(c, outcome) ==
  /\ c \in DOMAIN Threads[Ctl]
  /\ Threads[Ctl][c].pc = "exec"
  /\ Threads[Ctl][c].step = "sync"
  /\ Threads[Ctl][c].it < 0
  /\ Threads' = [Threads EXCEPT
       ![Ctl][c].step = IF outcome = "throws" THEN "terminate"
                        ELSE IF outcome = "blocks" THEN "blocked" ELSE @,
       ![Ctl][c].it = IF outcome = "returns" THEN @ + 1 ELSE @]
  /\ UNCHANGED <<os, NumberOfThreads, Running, Destroying, Empty, InvokerQueue, Mutex,
                 notifying, ncalls, nextTask, dtor, pushLog, popLog, executed>>

\* Sync has joined the last handle.  The lambda of Stop returns; that of
\* SetNumberOfThreads truncates the handles first.
SyncEnd(c) ==
  /\ c \in DOMAIN Threads[Ctl]
  /\ Threads[Ctl][c].pc = "exec"
  /\ Threads[Ctl][c].step = "sync"
  /\ LET w == Threads[Ctl][c] IN
     /\ w.it >= Len(Threads[Out])
     /\ IF w.inv.kind = "SetNumberOfThreads"
        THEN IF ResizeThrows(w.inv.arg)
             THEN Threads' = [Threads EXCEPT ![Ctl][c].step = "terminate"]
             ELSE Threads' = [Threads EXCEPT ![Out] = Resize(@, w.inv.arg),
                                             ![Ctl][c] = Return(w)]
        ELSE Threads' = [Threads EXCEPT ![Ctl][c] = Return(w)]
  /\ UNCHANGED <<os, NumberOfThreads, Running, Destroying, Empty, InvokerQueue, Mutex,
                 notifying, ncalls, nextTask, dtor, pushLog, popLog, executed>>

(***************************************************************************)
(* ~vtkThreadedCallbackQueue of the outer pool.  Resetting Controller runs *)
(* the same destructor on the controller first (dtor.pool = Ctl), then the *)
(* body goes on with the outer pool (dtor.pool = Out).                     *)
(***************************************************************************)
DestroyBegin ==
  /\ dtor.step = "alive"
  /\ notifying = 0
  /\ dtor' = [step |-> "check", pool |-> Ctl, it |-> 0, pops |-> 0]
  /\ UNCHANGED <<os, NumberOfThreads, Running, Destroying, Empty, InvokerQueue, Threads, Mutex,
                 notifying, ncalls, nextTask, pushLog, popLog, executed>>

\* Where the destructor goes once it is through with pool p.
DestroyNext(p) ==
  IF p = Ctl THEN [dtor EXCEPT !.step = "check", !.pool = Out, !.it = 0]
             ELSE [dtor EXCEPT !.step = "destroyed", !.it = 0]

\* Mutant: the destructor does not test Running.
DestroyTestSkipped(p) == TRUE

\* if (this->Running): whether the destructor has threads to wake and join.
DestroyTest(p) == Running[p]

\* if (this->Running) { lock; Destroying = true; }
DestroyCheck ==
  /\ dtor.step = "check"
  /\ IF DestroyTest(dtor.pool)
     THEN /\ MutexFree(dtor.pool)
          /\ Destroying' = [Destroying EXCEPT ![dtor.pool] = TRUE]
          /\ dtor' = [dtor EXCEPT !.step = "notify_all", !.pops = Len(popLog[Out])]
     ELSE /\ dtor' = DestroyNext(dtor.pool)
          /\ UNCHANGED Destroying
  /\ UNCHANGED <<os, NumberOfThreads, Running, Empty, InvokerQueue, Threads, Mutex,
                 notifying, ncalls, nextTask, pushLog, popLog, executed>>

DestroyNotify ==
  /\ dtor.step = "notify_all"
  /\ Threads' = [Threads EXCEPT ![dtor.pool] = NotifyAll(dtor.pool, @)]
  /\ dtor' = [dtor EXCEPT !.step = "sync", !.it = 0]
  /\ UNCHANGED <<os, NumberOfThreads, Running, Destroying, Empty, InvokerQueue, Mutex,
                 notifying, ncalls, nextTask, pushLog, popLog, executed>>

\* Sync() of the destructor: join the next handle of the pool.
DestroyJoin ==
  /\ dtor.step = "sync"
  /\ dtor.it < Len(Threads[dtor.pool])
  /\ Joined(Threads[dtor.pool][dtor.it + 1])
  /\ Threads' = [Threads EXCEPT ![dtor.pool][dtor.it + 1] = NoThread]
  /\ dtor' = [dtor EXCEPT !.it = @ + 1]
  /\ UNCHANGED <<os, NumberOfThreads, Running, Destroying, Empty, InvokerQueue, Mutex,
                 notifying, ncalls, nextTask, pushLog, popLog, executed>>

DestroyEnd ==
  /\ dtor.step = "sync"
  /\ dtor.it >= Len(Threads[dtor.pool])
  /\ dtor' = DestroyNext(dtor.pool)
  /\ UNCHANGED <<os, NumberOfThreads, Running, Destroying, Empty, InvokerQueue, Threads, Mutex,
                 notifying, ncalls, nextTask, pushLog, popLog, executed>>

(***************************************************************************)
(* PrintSelf of the outer pool, called by an external thread: it takes the *)
(* mutex and writes three lines.  The last line is modelled by its words.  *)
(***************************************************************************)
RunningLine(running) ==
  <<"Queue", "is">> \o (IF running THEN <<"not">> ELSE <<>>) \o <<"running">>

Dump(p) ==
  [threads |-> NumberOfThreads[p],
   size    |-> Len(InvokerQueue[p]),
   status  |-> RunningLine(Running[p])]

PrintSelf ==
  /\ ~Aborted
  /\ dtor.step = "alive"
  /\ Len(os) < MaxDumps
  /\ MutexFree(Out)
  /\ os' = Append(os, Dump(Out))
  /\ UNCHANGED <<NumberOfThreads, Running, Destroying, Empty, InvokerQueue, Threads, Mutex,
                 notifying, ncalls, nextTask, dtor, pushLog, popLog, executed>>

(***************************************************************************)
(* The state after vtkThreadedCallbackQueue::New(): the controller has     *)
(* been given CtlThreads threads and started (both run in place, it has no *)
(* controller); the outer pool is not running and holds one empty handle.  *)
(***************************************************************************)
Init ==
  /\ NumberOfThreads = [p \in Pools |-> IF p = Ctl THEN CtlThreads ELSE InitNumberOfThreads]
  /\ Running = [p \in Pools |-> p = Ctl]
  /\ Destroying = [p \in Pools |-> FALSE]
  /\ Empty = [p \in Pools |-> TRUE]
  /\ InvokerQueue = [p \in Pools |-> <<>>]
  /\ Threads = [p \in Pools |->
       IF p = Ctl THEN [i \in 1..CtlThreads |-> ThreadWorker(i - 1)]
                  ELSE [i \in 1..InitNumberOfThreads |-> NoThread]]
  /\ Mutex = [p \in Pools |-> 0]
  /\ notifying = 0
  /\ ncalls = 0
  /\ nextTask = 1
  /\ dtor = [step |-> "alive", pool |-> Ctl, it |-> 0, pops |-> 0]
  /\ pushLog = [p \in Pools |-> <<>>]
  /\ popLog = [p \in Pools |-> <<>>]
  /\ executed = [t \in 1..MaxTasks |-> 0]
  /\ os = <<>>

\* Steps of the worker threads of both pools.
WorkerStep ==
  \/ \E p \in Pools : \E i \in DOMAIN Threads[p] : Lock(p, i)
  \/ \E p \in Pools : \E i \in DOMAIN Threads[p] : Pop(p, i)
  \/ \E p \in Pools : \E i \in DOMAIN Threads[p] : PopInvoker(p, i)
  \/ \E i \in DOMAIN Threads[Out] : Run(i)

\* Steps of an administrative lambda on a controller thread.
AdminStep ==
  \/ \E c \in DOMAIN Threads[Ctl] : PushEmplace(c)
  \/ \E c \in DOMAIN Threads[Ctl] : \E j \in NotifyChoices(Out) : PushNotify(c, j)
  \/ \E c \in DOMAIN Threads[Ctl] : StartBegin(c)
  \/ \E c \in DOMAIN Threads[Ctl] : StartGenerate(c)
  \/ \E c \in DOMAIN Threads[Ctl] : StopBegin(c)
  \/ \E c \in DOMAIN Threads[Ctl] : StopLock(c)
  \/ \E c \in DOMAIN Threads[Ctl] : StopNotify(c)
  \/ \E c \in DOMAIN Threads[Ctl] : SetBegin(c)
  \/ \E c \in DOMAIN Threads[Ctl] : SetLock(c)
  \/ \E c \in DOMAIN Threads[Ctl] : SetWritten(c)
  \/ \E c \in DOMAIN Threads[Ctl] : SetGenerate(c)
  \/ \E c \in DOMAIN Threads[Ctl] : SyncJoin(c)
  \/ \E c \in DOMAIN Threads[Ctl] : \E outcome \in StrayJoins : SyncStray(c, outcome)
  \/ \E c \in DOMAIN Threads[Ctl] : SyncEnd(c)

\* Steps of the destructor once it has been entered.
DestroyStep ==
  \/ DestroyCheck
  \/ DestroyNotify
  \/ DestroyJoin
  \/ DestroyEnd

\* Steps that need no further call from outside: the program takes them by
\* itself.
SystemStep ==
  /\ ~Aborted
  /\ \/ WorkerStep
     \/ AdminStep
     \/ \E j \in NotifyChoices(Ctl) : ExecuteNotify(j)
     \/ DestroyStep

\* Steps the pool's user decides on.
UserStep ==
  /\ ~Aborted
  /\ \/ \E call \in Calls : Execute(call)
     \/ DestroyBegin

Wakeup == ~Aborted /\ \E p \in Pools : \E i \in DOMAIN Threads[p] : SpuriousWakeup(p, i)

Next == SystemStep \/ UserStep \/ Wakeup

Spec == Init /\ [][Next]_vars

\* Progress must not rest on spurious wake-ups: the fair specification has
\* none, and every thread that can take a step eventually takes one.
FairNext == SystemStep \/ UserStep

FairSpec == Init /\ [][FairNext]_vars /\ WF_vars(SystemStep)

\* The diagnostic dump changes nothing in the pool.  The specification of
\* the pool with its dumps adds PrintSelf to the steps; the others leave the
\* stream empty.
PrintNext == Next \/ PrintSelf

PrintSpec == Init /\ [][PrintNext]_vars

(***************************************************************************)
(* Vocabulary of the properties.                                           *)
(***************************************************************************)
Range(q) == {q[k] : k \in DOMAIN q}

\* The tasks appended to the outer queue so far.
Pushed == {e.seq : e \in Range(pushLog[Out])}

\* The tasks appended to the outer queue while the outer pool was running.
PushedRunning == {e.seq : e \in {x \in Range(pushLog[Out]) : x.running}}

\* The tasks waiting in the outer queue.
Queued == {inv.seq : inv \in Range(InvokerQueue[Out])}

\* The outer workers that are inside the body of task t.
InFlight(t) == {i \in DOMAIN Threads[Out] : Threads[Out][i].pc = "exec" /\ Threads[Out][i].inv.seq = t}

\* The outer workers that hold task t: moved out of front(), or running.
Holders(t) ==
  {i \in DOMAIN Threads[Out] : Threads[Out][i].pc \in {"front", "exec"} /\ Threads[Out][i].inv.seq = t}

\* The controller threads that are inside an administrative lambda.
InAdmin == {c \in DOMAIN Threads[Ctl] : Threads[Ctl][c].pc = "exec"}

\* Controller thread c takes a step of its lambda.
AdminMoves(c) == c \in InAdmin /\ Threads'[Ctl][c] # Threads[Ctl][c]

\* Controller thread c returns from its lambda in this step.
AdminReturns(c) == c \in InAdmin /\ Threads'[Ctl][c].pc = "start"

(***************************************************************************)
(* C1.  Whatever the interleaving of the workers with Push, Start, Stop    *)
(* and SetNumberOfThreads: a task is popped at most once (it appears at    *)
(* most once in the pop history and is held by at most one worker),        *)
(* its body runs at most once, and only tasks that were appended to the    *)
(* queue are ever popped or run.                                           *)
(***************************************************************************)
C1_PoppedAndExecutedAtMostOnce ==
  /\ \A j, k \in DOMAIN popLog[Out] : popLog[Out][j] = popLog[Out][k] => j = k
  /\ \A t \in 1..MaxTasks :
       /\ Cardinality(Holders(t)) + executed[t] <= 1
       /\ (executed[t] > 0 \/ InFlight(t) # {}) => t \in Range(popLog[Out])
       /\ Holders(t) # {} => t \in Pushed
       /\ t \in Range(popLog[Out]) => t \in Pushed /\ t \notin Queued

\* Two workers of a resized pool are each inside a different task.
C1_Witness ==
  /\ Len(Threads[Out]) = 2
  /\ Threads[Out][1].pc = "exec"
  /\ Threads[Out][2].pc = "exec"
  /\ Threads[Out][1].inv.seq # Threads[Out][2].inv.seq

(***************************************************************************)
(* C4.  Tasks are popped in the order they were appended: the pop history  *)
(* of the outer pool is a prefix of its append history, with any number of *)
(* workers and across Stop/Start and resizes.  Completion order is free.   *)
(***************************************************************************)
C4_PopOrderIsAppendOrder ==
  /\ Len(popLog[Out]) <= Len(pushLog[Out])
  /\ \A k \in DOMAIN popLog[Out] : popLog[Out][k] = pushLog[Out][k].seq

\* Both tasks were popped, in order, and the second completed first.
C4_Witness ==
  /\ popLog[Out] = <<1, 2>>
  /\ executed[2] = 1
  /\ executed[1] = 0

(***************************************************************************)
(* C5.  The lambdas of Start, Stop, SetNumberOfThreads (and Push) run on   *)
(* the controller one at a time and in the order of their tickets, i.e. in *)
(* the order they were appended to the controller's queue, also when the   *)
(* calls come from different external threads at the same time.            *)
(***************************************************************************)
C5_AdminOneAtATimeInOrder ==
  /\ Cardinality(InAdmin) <= 1
  /\ \A k \in DOMAIN popLog[Ctl] : popLog[Ctl][k] = k
  /\ \A k \in DOMAIN pushLog[Ctl] : pushLog[Ctl][k].seq = k

\* Two callers are inside a call while the controller runs the second
\* lambda and a third one is queued.
C5_Witness ==
  /\ notifying = 2
  /\ Len(popLog[Ctl]) = 2
  /\ InAdmin # {}
  /\ InvokerQueue[Ctl] # <<>>

\* The tasks that were in the queue when a Stop cleared Running.
Stranded == {e.seq : e \in {x \in Range(pushLog[Out]) : x.stranded}}

\* 1 if task t waits in the outer queue, else 0.
InQueue(t) == IF t \in Queued THEN 1 ELSE 0

\* The outer pool is running with at least one thread in service.
InService == Running[Out] /\ NumberOfThreads[Out] >= 1

\* Controller thread c has joined every thread in Sync and is about to
\* return from the lambda of Stop: the Stop operation has completed.
StopCompleted(c) ==
  /\ AtStep(c, "Stop", "sync")
  /\ Threads[Ctl][c].it >= Len(Threads[Out])

\* The outer pool is stopped and no Stop is still joining its threads.
Stopped ==
  /\ ~Running[Out]
  /\ \A c \in InAdmin : Threads[Ctl][c].inv.kind = "Stop" => StopCompleted(c)

IsPrefix(q, r) == Len(q) <= Len(r) /\ \A k \in DOMAIN q : q[k] = r[k]

(***************************************************************************)
(* C2, as stated.  Every task appended to the queue of a running pool is   *)
(* eventually executed, whatever Stop and SetNumberOfThreads do, unless    *)
(* the pool is destroyed (or was given a negative thread count).           *)
(***************************************************************************)
C2_EverySubmittedExecuted ==
  \A t \in 1..MaxTasks :
    (t \in PushedRunning)
      ~> (executed[t] = 1 \/ dtor.step # "alive" \/ NumberOfThreads[Out] < 0)

(***************************************************************************)
(* C2, amended.  No task is lost: a task that was appended is waiting in   *)
(* the queue, or inside exactly one worker, or has run once.  And a task   *)
(* that was appended is eventually executed if the pool stays running with *)
(* at least one thread in service from some time on; a Stop or a shrink to *)
(* 0 threads leaves it in the queue.                                       *)
(***************************************************************************)
C2_NoLossAndExecutedWhileInService ==
  /\ [](\A t \in Pushed : InQueue(t) + Cardinality(InFlight(t)) + executed[t] = 1)
  /\ \A t \in 1..MaxTasks : []<>(t \notin Pushed \/ executed[t] = 1 \/ ~InService)

\* A running pool was shrunk to 0 threads after task 1 ran: task 2, appended
\* while the pool was running, stays in the queue.
C2_Witness ==
  /\ Running[Out]
  /\ NumberOfThreads[Out] = 0
  /\ InAdmin = {}
  /\ PushedRunning = {1, 2}
  /\ executed[1] = 1
  /\ Queued = {2}

(***************************************************************************)
(* C3, as stated.  Once a Stop on a pool with at least one thread has      *)
(* completed, every task appended while the pool was running has been      *)
(* executed and the queue is empty.                                        *)
(***************************************************************************)
C3_StopDrainsQueue ==
  \A c \in DOMAIN Threads[Ctl] :
    (StopCompleted(c) /\ NumberOfThreads[Out] >= 1 /\ Pushed = PushedRunning)
      => (InvokerQueue[Out] = <<>> /\ \A t \in Pushed : executed[t] = 1)

(***************************************************************************)
(* C3, amended.  Once Stop has completed, and for as long as the pool is   *)
(* stopped, every thread has been joined, no task is in flight, and each   *)
(* appended task has either run exactly once or is still in the queue: the *)
(* queue length is the number of tasks appended minus the number executed. *)
(***************************************************************************)
C3_StopFinishesInFlightOnly ==
  Stopped =>
    /\ \A i \in DOMAIN Threads[Out] : Threads[Out][i].pc = "none"
    /\ \A t \in Pushed : Holders(t) = {} /\ InQueue(t) + executed[t] = 1
    /\ Len(InvokerQueue[Out]) = Cardinality({t \in Pushed : executed[t] = 0})

\* Stop has completed on a pool that was given two tasks while running: one
\* has run, the other is still queued.
C3_Witness ==
  /\ \E c \in DOMAIN Threads[Ctl] : StopCompleted(c)
  /\ NumberOfThreads[Out] >= 1
  /\ PushedRunning = {1, 2}
  /\ executed[1] = 1
  /\ Len(InvokerQueue[Out]) = 1

(***************************************************************************)
(* C6, as stated.  While a shrink of a running pool to n threads joins,    *)
(* the handles it joins (index >= n) are exactly the threads with ordinal  *)
(* id >= n; when it has joined them all, those are gone and the threads    *)
(* with lower ids are alive.                                               *)
(***************************************************************************)
C6_ShrinkJoinsHighestIds ==
  \A c \in DOMAIN Threads[Ctl] :
    AtStep(c, "SetNumberOfThreads", "sync") =>
      LET n == Threads[Ctl][c].inv.arg IN
      /\ \A j \in DOMAIN Threads[Out] :
           Threads[Out][j].pc # "none" => (j > n <=> Threads[Out][j].id >= n)
      /\ Threads[Ctl][c].it >= Len(Threads[Out]) =>
           \A j \in DOMAIN Threads[Out] :
             IF j > n THEN Threads[Out][j].pc = "none" ELSE Live(Threads[Out][j])

(***************************************************************************)
(* C7.  A growth of a running pool from K to K+M threads leaves the K      *)
(* handles it found as they are (no step of the lambda stops, joins or     *)
(* respawns a thread, changes its id or touches the invoker it runs), does *)
(* not touch the queue, and returns with K+M handles, the M new ones       *)
(* holding threads.                                                        *)
(***************************************************************************)
Growing(c) ==
  /\ c \in InAdmin
  /\ Threads[Ctl][c].inv.kind = "SetNumberOfThreads"
  /\ Running[Out]
  /\ \/ Threads[Ctl][c].step = "begin" /\ Len(Threads[Out]) < Threads[Ctl][c].inv.arg
     \/ /\ Threads[Ctl][c].step \in {"written", "generate_n"}
        /\ Threads[Ctl][c].size < Threads[Ctl][c].inv.arg

C7_GrowthLeavesWorkersAlone ==
  [][\A c \in DOMAIN Threads[Ctl] :
       (Growing(c) /\ AdminMoves(c)) =>
         /\ Len(Threads'[Out]) >= Len(Threads[Out])
         /\ \A j \in DOMAIN Threads[Out] : Threads'[Out][j] = Threads[Out][j]
         /\ UNCHANGED <<InvokerQueue, Running, Destroying, Mutex, popLog, executed>>
         /\ AdminReturns(c) =>
              /\ Len(Threads'[Out]) = Threads[Ctl][c].inv.arg
              /\ \A j \in (Threads[Ctl][c].size + 1)..Len(Threads'[Out]) :
                   Threads'[Out][j].pc # "none"]_vars

\* A growth from 1 to 2 threads is about to return while the thread it
\* found is inside a task.
C7_Witness ==
  \E c \in DOMAIN Threads[Ctl] :
    /\ AtStep(c, "SetNumberOfThreads", "generate_n")
    /\ Threads[Ctl][c].it = 0
    /\ Threads[Ctl][c].size = 1
    /\ Len(Threads[Out]) = 2
    /\ Threads[Out][1].pc = "exec"

(***************************************************************************)
(* C8, as stated.  Once the destructor of a running pool with queued tasks *)
(* has been entered, it ends, with every thread of the pool and of its     *)
(* controller joined (unless the pool was given a negative thread count).  *)
(***************************************************************************)
C8_DestroyTerminates ==
  (dtor.step # "alive" /\ Running[Out] /\ InvokerQueue[Out] # <<>>)
    ~> \/ dtor.step = "destroyed" /\ \A p \in Pools : \A i \in DOMAIN Threads[p] : Threads[p][i].pc = "none"
       \/ NumberOfThreads[Out] < 0

(***************************************************************************)
(* C9, as stated.  Once Destroying is set on the outer pool, no invoker is *)
(* popped any more.                                                        *)
(***************************************************************************)
C9_NoPopAfterDestroying ==
  Destroying[Out] => Len(popLog[Out]) = dtor.pops

(***************************************************************************)
(* C9, amended.  Continue does not read Destroying: the workers in service *)
(* go on popping and leave only when the queue is empty.  When the         *)
(* destructor of a running pool with at least one thread has ended, the    *)
(* queue is empty, every appended task has run once and every thread has   *)
(* been joined; a worker in service that has left found the queue empty.   *)
(***************************************************************************)
C9_PendingAreDrained ==
  /\ (dtor.step = "destroyed" /\ InService) =>
       /\ InvokerQueue[Out] = <<>>
       /\ \A t \in Pushed : executed[t] = 1
       /\ \A i \in DOMAIN Threads[Out] : Threads[Out][i].pc = "none"
  /\ \A i \in DOMAIN Threads[Out] :
       (Destroying[Out] /\ Threads[Out][i].pc = "done" /\ Threads[Out][i].id < NumberOfThreads[Out])
         => InvokerQueue[Out] = <<>>

\* The destructor has ended and the pool popped two tasks after Destroying
\* was set.
C9_Witness ==
  /\ dtor.step = "destroyed"
  /\ InService
  /\ Len(popLog[Out]) = dtor.pops + 2
  /\ \A t \in 1..MaxTasks : executed[t] = 1

(***************************************************************************)
(* C10.  While the pool is stopped nothing leaves the queue and nothing    *)
(* moves in it (appends go to the tail), and a task that a Stop left in    *)
(* the queue is executed once the pool runs again with at least one thread *)
(* in service and stays so (is not stopped or emptied of threads again).   *)
(***************************************************************************)
C10_StrandedStayAndRunAfterStart ==
  /\ [][(~Running[Out] /\ ~Running'[Out]) => IsPrefix(InvokerQueue[Out], InvokerQueue'[Out])]_vars
  /\ [][(~Running[Out] /\ Running'[Out]) => InvokerQueue'[Out] = InvokerQueue[Out]]_vars
  /\ \A t \in 1..MaxTasks : []<>(t \notin Stranded \/ executed[t] = 1 \/ ~InService)

\* Task 1 was left in the queue by a Stop and has run after a Start.
C10_Witness ==
  /\ 1 \in Stranded
  /\ executed[1] = 1
  /\ Running[Out]

(***************************************************************************)
(* C11.  When the Stop operation on a running pool has completed, Running  *)
(* is false, every handle of the pool has been joined (no worker waits,    *)
(* holds the mutex or is inside an invoker) and every invoker popped so    *)
(* far has run to completion.                                              *)
(***************************************************************************)
C11_StopJoinsEveryWorker ==
  \A c \in DOMAIN Threads[Ctl] :
    StopCompleted(c) =>
      /\ ~Running[Out]
      /\ \A i \in DOMAIN Threads[Out] : Threads[Out][i].pc = "none"
      /\ Mutex[Out] = 0
      /\ \A k \in DOMAIN popLog[Out] : executed[popLog[Out][k]] = 1

\* Stop has completed on a pool of two threads that had popped a task.
C11_Witness ==
  /\ \E c \in DOMAIN Threads[Ctl] : StopCompleted(c)
  /\ Len(Threads[Out]) = 2
  /\ Len(popLog[Out]) >= 1

\* The destructor is at work on the outer pool: the controller is behind it.
OuterTeardown == dtor.step # "alive" /\ dtor.pool = Out

(***************************************************************************)
(* C12.  The destructor is through with the controller before it touches   *)
(* the outer pool: when it tests Running of the outer pool, sets           *)
(* Destroying, notifies or joins, every administrative lambda that was     *)
(* submitted has been popped and has returned, the controller's queue is   *)
(* empty and the controller's thread has been joined.                      *)
(***************************************************************************)
C12_ControllerTornDownFirst ==
  (OuterTeardown \/ Destroying[Out]) =>
    /\ InvokerQueue[Ctl] = <<>>
    /\ Len(popLog[Ctl]) = ncalls
    /\ InAdmin = {}
    /\ \A c \in DOMAIN Threads[Ctl] : Threads[Ctl][c].pc = "none"

\* The destructor is about to wake the workers of a running outer pool; the
\* controller has run three lambdas and is gone.
C12_Witness ==
  /\ dtor.pool = Out
  /\ dtor.step = "notify_all"
  /\ Len(popLog[Ctl]) >= 3
  /\ \E i \in DOMAIN Threads[Out] : Live(Threads[Out][i])

\* Controller thread c enters a lambda that finds the pool in its target
\* state: Start on a running pool, Stop on a stopped one, SetNumberOfThreads
\* with the current number of handles.
InTargetState(c) ==
  \/ AtStep(c, "Start", "begin") /\ Running[Out]
  \/ AtStep(c, "Stop", "begin") /\ ~Running[Out]
  \/ AtStep(c, "SetNumberOfThreads", "begin") /\ Threads[Ctl][c].inv.arg = Len(Threads[Out])

(***************************************************************************)
(* C13.  An administrative lambda that finds the pool in its target state  *)
(* returns in its first step and changes nothing: NumberOfThreads,         *)
(* Running, the handles with their threads and ids, the queue and the      *)
(* mutex are as before; no thread is spawned, woken or joined.             *)
(***************************************************************************)
C13_NoOpInTargetState ==
  [][\A c \in DOMAIN Threads[Ctl] :
       (InTargetState(c) /\ AdminMoves(c)) =>
         /\ AdminReturns(c)
         /\ Threads'[Out] = Threads[Out]
         /\ UNCHANGED <<NumberOfThreads, Running, Destroying, Empty, InvokerQueue,
                        Mutex, pushLog, popLog, executed>>]_vars

\* Start is about to run on a running pool whose worker is inside a task
\* while another task waits.
C13_Witness ==
  /\ \E c \in DOMAIN Threads[Ctl] : AtStep(c, "Start", "begin")
  /\ Running[Out]
  /\ InvokerQueue[Out] # <<>>
  /\ \E i \in DOMAIN Threads[Out] : Threads[Out][i].pc = "exec"

(***************************************************************************)
(* C14, as stated.  The lambda of SetNumberOfThreads(n) with n < 0 is a    *)
(* no-op on a running and on a stopped pool: none of its steps changes     *)
(* NumberOfThreads, the handles and their threads or the queue, and none   *)
(* raises an error.                                                        *)
(***************************************************************************)
C14_NegativeCountIsNoOp ==
  [][\A c \in DOMAIN Threads[Ctl] :
       (/\ c \in InAdmin
        /\ Threads[Ctl][c].inv.kind = "SetNumberOfThreads"
        /\ Threads[Ctl][c].inv.arg < 0
        /\ AdminMoves(c)) =>
         /\ Threads'[Ctl][c].step # "terminate"
         /\ Threads'[Out] = Threads[Out]
         /\ UNCHANGED <<NumberOfThreads, Running, InvokerQueue>>]_vars

(***************************************************************************)
(* C15, as stated.  A dump reports the pool as running exactly when        *)
(* Running is true and as not running exactly when Running is false; the   *)
(* thread count and the queue length it reports are those of the state it  *)
(* read under the mutex; the dump changes no pool state.                   *)
(***************************************************************************)
C15_DumpTellsTheState ==
  [][os' # os =>
       LET d == os'[Len(os')] IN
       /\ d.status = <<"Queue", "is", "running">> <=> Running[Out]
       /\ d.status = <<"Queue", "is", "not", "running">> <=> ~Running[Out]
       /\ d.threads = NumberOfThreads[Out]
       /\ d.size = Len(InvokerQueue[Out])
       /\ UNCHANGED <<NumberOfThreads, Running, Destroying, Empty, InvokerQueue,
                      Threads, Mutex, pushLog, popLog, executed>>]_vars

(***************************************************************************)
(* C16.  A caller of Submit waits for nothing but the controller's mutex,  *)
(* and nobody keeps that mutex while running or waiting: it is held only   *)
(* inside the critical section of Pop and is always released again.  Once  *)
(* the request is in the controller's queue the caller returns, whatever   *)
(* the workers do and whether or not the request is ever run (unless       *)
(* std::terminate ends the process first).                                 *)
(***************************************************************************)
C16_SubmitReturns ==
  /\ [](\A c \in DOMAIN Threads[Ctl] :
          Mutex[Ctl] = c => Threads[Ctl][c].pc \in {"locked", "front"})
  /\ []<>(Mutex[Ctl] = 0)
  /\ []<>(notifying = 0 \/ Aborted)

\* The caller of Submit has returned although the controller is stuck in a
\* join and will never run the request; the workers of the pool wait.
C16_Witness ==
  /\ notifying = 0
  /\ \E k \in DOMAIN InvokerQueue[Ctl] : InvokerQueue[Ctl][k].kind = "Push"
  /\ \E c \in DOMAIN Threads[Ctl] : AtStep(c, "SetNumberOfThreads", "sync")
  /\ Len(Threads[Out]) = 2
  /\ \A i \in DOMAIN Threads[Out] : Threads[Out][i].pc = "waiting"

(***************************************************************************)
(* C17, as stated.  Whenever no administrative lambda is running, the live *)
(* workers of the pool have pairwise distinct ids and the worker held at   *)
(* index i of the handles (from 0) has the id i.                           *)
(***************************************************************************)
C17_IdsAreHandleIndices ==
  InAdmin = {} =>
    /\ \A i \in DOMAIN Threads[Out] : Live(Threads[Out][i]) => Threads[Out][i].id = i - 1
    /\ \A i, j \in DOMAIN Threads[Out] :
         (Live(Threads[Out][i]) /\ Live(Threads[Out][j]) /\ i # j)
           => Threads[Out][i].id # Threads[Out][j].id

\* A controller thread runs a lambda that was given no negative argument.
AdminBusy == \E c \in InAdmin : Threads[Ctl][c].inv.arg >= 0

(***************************************************************************)
(* C18, as stated.  Every administrative lambda (called with a count that  *)
(* is not negative) eventually returns: the controller's thread does not   *)
(* stay in a join for ever.                                                *)
(***************************************************************************)
C18_AdminCompletes == AdminBusy ~> (InAdmin = {})

\* Thread i of pool p, or an empty handle if the pool has no such handle.
ThreadAt(p, i) == IF i \in DOMAIN Threads[p] THEN Threads[p][i] ELSE NoThread

\* What Continue tests holds for worker w of pool p.
MayPop(p, w) == w.id < NumberOfThreads[p] /\ Running[p] /\ InvokerQueue[p] # <<>>

NotificationDue(p) ==
  IF p = Ctl
  THEN notifying > 0 \/ (dtor.pool = Ctl /\ dtor.step = "notify_all")
  ELSE \/ dtor.pool = Out /\ dtor.step = "notify_all"
       \/ \E c \in DOMAIN Threads[Ctl] :
            \/ AtStep(c, "Push", "notify_one")
            \/ AtStep(c, "Stop", "notify_all")
            \/ AtStep(c, "SetNumberOfThreads", "written")

\* A worker of pool p other than i is awake and in service: it will pop.
OtherAwake(p, i) ==
  \E j \in DOMAIN Threads[p] :
    /\ j # i
    /\ Threads[p][j].pc \in {"start", "locked", "front", "exec"}
    /\ Threads[p][j].id < NumberOfThreads[p]

\* Thread i of pool p waits although its OnHold is false.
MissesWakeup(p, i) == ThreadAt(p, i).pc = "waiting" /\ ~OnHold(p, ThreadAt(p, i))

(***************************************************************************)
(* C20.  No wake-up is missed.  A worker is found waiting with OnHold      *)
(* false only while the notification for the change is still due, or       *)
(* while the queue holds work that another worker in service, which is     *)
(* awake, is about to take.  And no worker stays so for ever: again and    *)
(* again it is found out of the wait, or with OnHold true because the work *)
(* was taken (or std::terminate has ended the process).                    *)
(***************************************************************************)
C20_NoMissedWakeup ==
  /\ [](\A p \in Pools : \A i \in DOMAIN Threads[p] :
          MissesWakeup(p, i)
            => \/ NotificationDue(p)
               \/ Continue(p, Threads[p][i]) /\ OtherAwake(p, i))
  /\ \A i \in 1..MaxThreads : []<>(~MissesWakeup(Out, i) \/ Aborted)
  /\ \A c \in 1..CtlThreads : []<>(~MissesWakeup(Ctl, c) \/ Aborted)

\* Stop has cleared Running and has not notified yet: both workers still
\* wait, with OnHold false.
C20_Witness ==
  /\ \E c \in DOMAIN Threads[Ctl] : AtStep(c, "Stop", "notify_all")
  /\ Len(Threads[Out]) = 2
  /\ \A i \in DOMAIN Threads[Out] :
       Threads[Out][i].pc = "waiting" /\ ~OnHold(Out, Threads[Out][i])

\* What the mutex of pool p is there to guard.
SharedState(p) == <<NumberOfThreads[p], Running[p], Destroying[p], InvokerQueue[p]>>

\* The workers of pool p that hold the mutex and have yet to evaluate OnHold
\* and Continue.
Evaluating(p) == {i \in DOMAIN Threads[p] : Threads[p][i].pc = "locked"}

(***************************************************************************)
(* C21, as stated.  NumberOfThreads, Running, Destroying and the queue of  *)
(* a pool are written only by a thread that holds the pool's mutex: while  *)
(* a worker holds it and is about to evaluate OnHold and Continue, no step *)
(* of another thread changes any of them.                                  *)
(***************************************************************************)
C21_WritesUnderTheMutex ==
  [][\A p \in Pools : Evaluating(p) # {} => SharedState(p)' = SharedState(p)]_vars

(***************************************************************************)
(* C21, amended.  While a worker holds the mutex and is about to evaluate  *)
(* OnHold and Continue, no other thread changes Running, Destroying or the *)
(* queue, and NumberOfThreads is not lowered: the only write made without  *)
(* the mutex on a pool with live workers is the growth's, which raises     *)
(* NumberOfThreads and leaves every live worker on the side of it where it *)
(* was.  The other writes without the mutex, Running = true in Start and   *)
(* NumberOfThreads on a pool that is not running, find no thread in the    *)
(* pool's handles.                                                         *)
(***************************************************************************)
C21_LockedWhereWorkersRead ==
  /\ [][\A p \in Pools :
          Evaluating(p) # {} =>
            /\ UNCHANGED <<Running[p], Destroying[p], InvokerQueue[p]>>
            /\ NumberOfThreads'[p] >= NumberOfThreads[p]
            /\ \A i \in DOMAIN Threads[p] :
                 Live(Threads[p][i]) =>
                   (Threads[p][i].id < NumberOfThreads[p] <=> Threads[p][i].id < NumberOfThreads'[p])]_vars
  /\ [][\A p \in Pools :
          \/ ~Running[p] /\ Running'[p]
          \/ ~Running[p] /\ NumberOfThreads'[p] # NumberOfThreads[p]
          => \A i \in DOMAIN Threads[p] : Threads[p][i].pc = "none"]_vars

\* A growth of a running pool has raised NumberOfThreads while a worker of
\* the pool holds the mutex and has yet to evaluate OnHold.
C21_Witness ==
  \E c \in DOMAIN Threads[Ctl] :
    /\ AtStep(c, "SetNumberOfThreads", "written")
    /\ Running[Out]
    /\ Threads[Ctl][c].size < Threads[Ctl][c].inv.arg
    /\ Evaluating(Out) # {}

\* Controller thread c runs the lambda of SetNumberOfThreads on a pool that
\* is not running.
SetsStopped(c) ==
  /\ c \in InAdmin
  /\ Threads[Ctl][c].inv.kind = "SetNumberOfThreads"
  /\ ~Running[Out]

\* No handle of the outer pool holds a thread.
NoWorker == \A j \in DOMAIN Threads[Out] : Threads[Out][j].pc = "none"

(***************************************************************************)
(* C22.  The lambda of Start on a pool that is not running finds one empty *)
(* handle per thread of NumberOfThreads, sets Running, and gives the       *)
(* handles their threads one by one in the order of the collection, the    *)
(* handle at index j (from 0) the thread with id j, touching nothing else; *)
(* when it returns every handle holds a thread.  The lambda of             *)
(* SetNumberOfThreads(n) on a pool that is not running spawns nothing and  *)
(* leaves Running false; it returns with n empty handles and               *)
(* NumberOfThreads = n, which is what the next Start finds.                *)
(***************************************************************************)
C22_StartSpawnsOnePerSlot ==
  [][\A c \in DOMAIN Threads[Ctl] :
       /\ (AtStep(c, "Start", "begin") /\ ~Running[Out] /\ AdminMoves(c)) =>
            /\ Running'[Out]
            /\ NoWorker
            /\ Len(Threads[Out]) = NumberOfThreads[Out]
            /\ Threads'[Out] = Threads[Out]
       /\ (AtStep(c, "Start", "generate") /\ AdminMoves(c)) =>
            /\ Running[Out] /\ Running'[Out]
            /\ Len(Threads'[Out]) = NumberOfThreads[Out]
            /\ UNCHANGED <<NumberOfThreads, InvokerQueue>>
            /\ IF AdminReturns(c)
               THEN /\ Threads'[Out] = Threads[Out]
                    /\ \A j \in DOMAIN Threads[Out] :
                         Live(Threads[Out][j]) /\ Threads[Out][j].id = j - 1
               ELSE LET k == Threads[Ctl][c].it + 1 IN
                    /\ Threads[Out][k].pc = "none"
                    /\ Threads'[Out][k] = ThreadWorker(k - 1)
                    /\ \A j \in DOMAIN Threads[Out] : j # k => Threads'[Out][j] = Threads[Out][j]
       /\ (SetsStopped(c) /\ AdminMoves(c)) =>
            /\ NoWorker
            /\ NoWorker'
            /\ ~Running'[Out]
            /\ AdminReturns(c) =>
                 /\ Len(Threads'[Out]) = Threads[Ctl][c].inv.arg
                 /\ NumberOfThreads'[Out] = Len(Threads'[Out])]_vars

\* SetNumberOfThreads(2) on the new pool, then Start: the lambda of Start is
\* about to return with two workers, ids 0 and 1.
C22_Witness ==
  \E c \in DOMAIN Threads[Ctl] :
    /\ AtStep(c, "Start", "generate")
    /\ Threads[Ctl][c].it = 2
    /\ Len(popLog[Ctl]) = 2
    /\ Len(Threads[Out]) = 2
    /\ Threads[Out][1].id = 0 /\ Live(Threads[Out][1])
    /\ Threads[Out][2].id = 1 /\ Live(Threads[Out][2])

(***************************************************************************)
(* C23.  A worker runs an invoker only after it has released the mutex: no *)
(* thread of either pool that is inside an invoker holds the pool's mutex, *)
(* and whoever holds it is inside the critical section of Pop.  So the     *)
(* mutex can be taken, to pop or to append, while an invoker runs.         *)
(***************************************************************************)
C23_ExecutesOutsideTheMutex ==
  \A p \in Pools :
    /\ Mutex[p] \in {0} \cup DOMAIN Threads[p]
    /\ \A i \in DOMAIN Threads[p] :
         /\ Threads[p][i].pc = "exec" => Mutex[p] # i
         /\ Mutex[p] = i => Threads[p][i].pc \in {"locked", "front"}

\* While the first worker is inside task 1, the second holds the mutex and
\* has taken task 2 from the front.
C23_Witness ==
  /\ Len(Threads[Out]) = 2
  /\ Threads[Out][1].pc = "exec"
  /\ Threads[Out][1].inv.seq = 1
  /\ Threads[Out][2].pc = "front"
  /\ Threads[Out][2].inv.seq = 2
  /\ Mutex[Out] = 2
  /\ popLog[Out] = <<1>>

(***************************************************************************)
(* C24.  Whenever the mutex of a pool is free, the pool's Empty flag is    *)
(* true exactly when its queue is empty.  A pop is made by the holder of   *)
(* the mutex, which sets the flag in the same critical section, and the    *)
(* flag changes only in a step that changes the queue.                     *)
(***************************************************************************)
C24_EmptyFlagTellsEmptiness ==
  /\ [](\A p \in Pools : Mutex[p] = 0 => (Empty[p] <=> InvokerQueue[p] = <<>>))
  /\ [][\A p \in Pools :
          /\ popLog'[p] # popLog[p] =>
               /\ Mutex[p] \in DOMAIN Threads[p]
               /\ Threads[p][Mutex[p]].pc = "front"
               /\ InvokerQueue'[p] = Tail(InvokerQueue[p])
               /\ Empty'[p] <=> InvokerQueue'[p] = <<>>
          /\ Empty'[p] # Empty[p] => InvokerQueue'[p] # InvokerQueue[p]]_vars

\* The outer pool has popped its two tasks, the second pop setting the flag;
\* the controller's flag is false with a request in its queue.
C24_Witness ==
  /\ popLog[Out] = <<1, 2>>
  /\ Empty[Out]
  /\ Mutex[Out] = 0
  /\ ~Empty[Ctl]
  /\ InvokerQueue[Ctl] # <<>>
  /\ Mutex[Ctl] = 0

\* A Start is waiting in the controller's queue or is being run.
StartPending ==
  \/ \E k \in DOMAIN InvokerQueue[Ctl] : InvokerQueue[Ctl][k].kind = "Start"
  \/ \E c \in InAdmin : Threads[Ctl][c].inv.kind = "Start"

\* A Stop has cleared Running and has not yet joined every thread.
StopAtWork ==
  \E c \in InAdmin :
    /\ Threads[Ctl][c].inv.kind = "Stop"
    /\ Threads[Ctl][c].step \in {"notify_all", "sync"}
    /\ ~StopCompleted(c)

\* The destructor has been entered on a pool that is stopped and that no
\* request still to be run by the controller will start again.
DestroyingStopped ==
  /\ dtor.step # "alive"
  /\ ~Running[Out]
  /\ ~StopAtWork
  /\ ~StartPending

(***************************************************************************)
(* C25.  From the moment the destructor is at work on a stopped pool (with *)
(* no Start still to be run by the controller), the pool stays stopped,    *)
(* Destroying is never set, no handle of the pool holds a thread (nothing  *)
(* is spawned, woken or joined), nothing is popped or executed and what is *)
(* in the queue stays there: when the destructor has ended, every task     *)
(* that was appended and had not run is still in the queue.  And the       *)
(* destructor does end (unless std::terminate ends the process first).     *)
(***************************************************************************)
C25_StoppedPoolDropsQueued ==
  /\ [][DestroyingStopped =>
          /\ DestroyingStopped'
          /\ ~Destroying'[Out]
          /\ NoWorker /\ NoWorker'
          /\ IsPrefix(InvokerQueue[Out], InvokerQueue'[Out])
          /\ UNCHANGED <<popLog[Out], executed>>]_vars
  /\ []((dtor.step = "destroyed" /\ ~Running[Out]) =>
          /\ NoWorker
          /\ ~Destroying[Out]
          /\ \A t \in Pushed : InQueue(t) + executed[t] = 1)
  /\ []<>(~DestroyingStopped \/ dtor.step = "destroyed" \/ Aborted)

\* The destructor of a stopped pool has ended with two tasks in the queue,
\* one left there by a Stop, one appended to the stopped pool; none has run.
C25_Witness ==
  /\ dtor.step = "destroyed"
  /\ ~Running[Out]
  /\ Queued = {1, 2}
  /\ 1 \in Stranded
  /\ \A t \in 1..MaxTasks : executed[t] = 0

\* The number of live worker threads of the outer pool.
LiveWorkers == Cardinality({j \in DOMAIN Threads[Out] : Live(Threads[Out][j])})

(***************************************************************************)
(* C26.  Whenever no administrative lambda is running (and the destructor  *)
(* has not set Destroying), the outer pool has NumberOfThreads handles,    *)
(* and NumberOfThreads live workers if Running is true, none if it is      *)
(* false; a handle that holds no live worker holds no thread at all.       *)
(***************************************************************************)
C26_HandlesAndWorkersMatchCount ==
  (InAdmin = {} /\ ~Destroying[Out]) =>
    /\ Len(Threads[Out]) = NumberOfThreads[Out]
    /\ LiveWorkers = IF Running[Out] THEN NumberOfThreads[Out] ELSE 0
    /\ \A j \in DOMAIN Threads[Out] : Live(Threads[Out][j]) \/ Threads[Out][j].pc = "none"

\* A running pool has been shrunk to 0 threads: it is running with no handle
\* and no worker.
C26_Witness ==
  /\ InAdmin = {}
  /\ Running[Out]
  /\ NumberOfThreads[Out] = 0
  /\ Threads[Out] = <<>>
  /\ Len(popLog[Out]) >= 1

====
